---- MODULE Spec2Model ----
(***************************************************************************)
(* Chunked binary transfer of src/util.js: Util.chunk slices a Blob into   *)
(* tagged fragments, Util.joinArrayBuffers concatenates ArrayBuffers.      *)
(* The receiver-side Reassembler is not part of src/util.js and is         *)
(* modelled from the specification text (sections 2 and 4.2).              *)
(***************************************************************************)
EXTENDS Integers, Sequences, FiniteSets, TLC

\* ---- bounds of the model ------------------------------------------------
\* payloads of 0..MaxLen bytes with values 0..MaxByte; chunkedMTU ranges over
\* -MaxNegMTU..MaxMTU; MaxCalls chunk calls; joinArrayBuffers takes up to
\* MaxBufs buffers of 0..MaxBufLen bytes
MaxLen == 5
MaxByte == 1
MaxMTU == 3
MaxNegMTU == 1
MaxCalls == 3
MaxBufs == 3
MaxBufLen == 2
MaxIter == MaxLen + 2

Byte == 0..MaxByte

SeqsUpTo(S, n) ==
  UNION {[1..k -> S] : k \in 0..n}

Payloads == SeqsUpTo(Byte, MaxLen)

MTUs == (0 - MaxNegMTU)..MaxMTU

Buffers == SeqsUpTo(Byte, MaxBufLen)

\* ---- JavaScript values that the fields and locals of chunk can hold ------
Undefined == [t |-> "undefined", n |-> 0]

NaN == [t |-> "NaN", n |-> 0]

Infinity == [t |-> "Infinity", n |-> 0]

Num(i) == [t |-> "number", n |-> i]

IsNum(v) == v.t = "number"

\* ToNumber of the operands of an arithmetic operator: undefined becomes NaN
ToNumber(v) ==
  IF v.t = "undefined" THEN NaN ELSE v

\* a + b  (only +Infinity can arise here, from a division by zero)
JsAdd(a, b) ==
  LET x == ToNumber(a)
      y == ToNumber(b)
  IN  IF x.t = "NaN" \/ y.t = "NaN" THEN NaN
      ELSE IF x.t = "Infinity" \/ y.t = "Infinity" THEN Infinity
      ELSE Num(x.n + y.n)

\* Math.min(a, b): NaN if either operand is NaN
JsMin(a, b) ==
  LET x == ToNumber(a)
      y == ToNumber(b)
  IN  IF x.t = "NaN" \/ y.t = "NaN" THEN NaN
      ELSE IF x.t = "Infinity" THEN y
      ELSE IF y.t = "Infinity" THEN x
      ELSE IF x.n <= y.n THEN x ELSE y

\* a < b: false as soon as an operand is NaN
JsLt(a, b) ==
  LET x == ToNumber(a)
      y == ToNumber(b)
  IN  IF x.t = "NaN" \/ y.t = "NaN" THEN FALSE
      ELSE IF x.t = "Infinity" THEN FALSE
      ELSE IF y.t = "Infinity" THEN TRUE
      ELSE x.n < y.n

\* Math.ceil(a / b) for an integer a >= 0 and a JavaScript value b
MathCeilDiv(a, b) ==
  LET y == ToNumber(b)
  IN  IF y.t = "NaN" THEN NaN
      ELSE IF y.t = "Infinity" THEN Num(0)
      ELSE IF y.n = 0 THEN (IF a = 0 THEN NaN ELSE Infinity)
      ELSE IF y.n > 0 THEN Num((a + y.n - 1) \div y.n)
      ELSE Num(0 - (a \div (0 - y.n)))

\* v++ stores ToNumber(v) + 1
PostIncrement(v) == JsAdd(v, Num(1))

\* Conversion of a slice argument ([Clamp] long long): NaN becomes 0
ToLongLong(v, size) ==
  IF v.t = "number" THEN v.n
  ELSE IF v.t = "Infinity" THEN size
  ELSE 0

\* Blob.slice(start, end): negative offsets count from the end, offsets are
\* clamped to [0, size], an empty span gives an empty Blob
BlobSlice(b, start, end) ==
  LET sz == Len(b)
      s == ToLongLong(start, sz)
      e == ToLongLong(end, sz)
      relativeStart == IF s < 0 THEN (IF sz + s > 0 THEN sz + s ELSE 0)
                       ELSE (IF s < sz THEN s ELSE sz)
      relativeEnd == IF e < 0 THEN (IF sz + e > 0 THEN sz + e ELSE 0)
                     ELSE (IF e < sz THEN e ELSE sz)
      span == IF relativeEnd > relativeStart THEN relativeEnd - relativeStart ELSE 0
  IN  SubSeq(b, relativeStart + 1, relativeStart + span)

VARIABLES
  chunkedMTU,    \* this.chunkedMTU
  chunkedCount,  \* this.chunkedCount
  pc,            \* position of the sender: idle, loop, returned, sending
  blob,          \* argument of the current chunk call
  start,         \* local of chunk
  index,         \* local of chunk
  total,         \* local of chunk
  chunks,        \* local of chunk
  result,        \* value returned by the last chunk call
  calls,         \* number of chunk calls that have returned
  channel,       \* fragments handed to the transport and not yet delivered
  pending,       \* Reassembler: parentMsgId -> PendingMessage
  delivered,     \* value returned by the last Reassembler insert
  outOfOrder,    \* history: a fragment was delivered ahead of a lower index
  buffers,       \* argument of the last joinArrayBuffers call
  joined         \* value returned by the last joinArrayBuffers call

vars == <<chunkedMTU, chunkedCount, pc, blob, start, index, total, chunks,
          result, calls, channel, pending, delivered, outOfOrder, buffers,
          joined>>

chunkVars == <<chunkedMTU, chunkedCount, pc, blob, start, index, total, chunks,
               result, calls>>

transferVars == <<channel, pending, delivered, outOfOrder>>

joinVars == <<buffers, joined>>

None == [some |-> FALSE, bytes |-> <<>>]

Some(b) == [some |-> TRUE, bytes |-> b]

NoPending == [id \in {} |-> 0]

\* State after `new Util()`: the constructor assigns neither chunkedMTU nor
\* chunkedCount, so both fields read as undefined.
Init ==
  /\ chunkedMTU = Undefined
  /\ chunkedCount = Undefined
  /\ pc = "idle"
  /\ blob = <<>>
  /\ start = Num(0)
  /\ index = 0
  /\ total = Num(0)
  /\ chunks = <<>>
  /\ result = <<>>
  /\ calls = 0
  /\ channel = {}
  /\ pending = NoPending
  /\ delivered = None
  /\ outOfOrder = FALSE
  /\ buffers = <<>>
  /\ joined = None

\* ---- Util.chunk ----------------------------------------------------------
size == Len(blob)

\* let total = Math.ceil(size / this.chunkedMTU)
ChunkTotal_Floor(sz, mtu) ==
  LET y == ToNumber(mtu)
  IN  IF y.t = "number" /\ y.n > 0 THEN Num(sz \div y.n) ELSE MathCeilDiv(sz, mtu)

ChunkTotal(sz, mtu) == MathCeilDiv(sz, mtu)

\* let end = Math.min(size, start + this.chunkedMTU)
SliceEnd_NoAdd(sz, st, mtu) == JsMin(Num(sz), st)

SliceEnd_OneMore(sz, st, mtu) == JsMin(Num(sz), JsAdd(JsAdd(st, mtu), Num(1)))

SliceEnd(sz, st, mtu) == JsMin(Num(sz), JsAdd(st, mtu))

\* start = end
NextStart_Skip(end) == JsAdd(end, Num(1))

NextStart(end) == end

\* the fragment sizes are configured by the caller: util.chunkedMTU = s
Configure(s) ==
  /\ pc = "idle"
  /\ chunkedMTU # Num(s)
  /\ chunkedMTU' = Num(s)
  /\ UNCHANGED <<chunkedCount, pc, blob, start, index, total, chunks, result, calls>>
  /\ UNCHANGED transferVars
  /\ UNCHANGED joinVars

\* entry of chunk(blob): the locals are initialised (lines 246-250)
ChunkCall(b) ==
  /\ pc = "idle"
  /\ calls < MaxCalls
  /\ blob' = b
  /\ chunks' = <<>>
  /\ start' = Num(0)
  /\ index' = 0
  /\ total' = ChunkTotal(Len(b), chunkedMTU)
  /\ pc' = "loop"
  /\ UNCHANGED <<chunkedMTU, chunkedCount, result, calls>>
  /\ UNCHANGED transferVars
  /\ UNCHANGED joinVars

\* one iteration of `while (start < size)` (lines 251-266); a loop that
\* never exits (chunkedMTU <= 0) is followed for MaxIter iterations only
ChunkIter ==
  /\ pc = "loop"
  /\ JsLt(start, Num(size))
  /\ Len(chunks) < MaxIter
  /\ LET end == SliceEnd(size, start, chunkedMTU)
         blobSlice == BlobSlice(blob, start, end)
         chunk == [parentMsgId |-> chunkedCount,
                   chunkIndex |-> index,
                   chunkData |-> blobSlice,
                   totalChunks |-> total]
     IN  /\ chunks' = Append(chunks, chunk)
         /\ start' = NextStart(end)
         /\ index' = index + 1
  /\ UNCHANGED <<chunkedMTU, chunkedCount, pc, blob, total, result, calls>>
  /\ UNCHANGED transferVars
  /\ UNCHANGED joinVars

\* loop exit: this.chunkedCount++; return chunks (lines 267-268)
ChunkReturn ==
  /\ pc = "loop"
  /\ ~JsLt(start, Num(size))
  /\ chunkedCount' = PostIncrement(chunkedCount)
  /\ result' = chunks
  /\ calls' = calls + 1
  /\ pc' = "returned"
  /\ chunks' = <<>>
  /\ start' = Num(0)
  /\ index' = 0
  /\ total' = Num(0)
  /\ UNCHANGED <<chunkedMTU, blob>>
  /\ UNCHANGED transferVars
  /\ UNCHANGED joinVars

\* ---- Util.joinArrayBuffers -----------------------------------------------
\* buffers.reduce((sum, buffer) => sum + buffer.byteLength, 0)
RECURSIVE SumByteLength(_, _, _)
SumByteLength(bufs, k, sum) ==
  IF k > Len(bufs) THEN sum
  ELSE SumByteLength(bufs, k + 1, sum + Len(bufs[k]))

\* new Uint8Array(size): size bytes, all zero
NewUint8Array(n) == [i \in 1..n |-> 0]

\* tmpArray.set(new Uint8Array(buffer), currPos)
TypedArraySet(tmpArray, buffer, currPos) ==
  [i \in 1..Len(tmpArray) |->
     IF i > currPos /\ i <= currPos + Len(buffer)
     THEN buffer[i - currPos]
     ELSE tmpArray[i]]

\* currPos += buffer.byteLength
NextPos_Fixed(currPos, buffer) == currPos + 1

NextPos(currPos, buffer) == currPos + Len(buffer)

\* for (let buffer of buffers) { ... }
RECURSIVE JoinLoop(_, _, _, _)
JoinLoop(bufs, k, tmpArray, currPos) ==
  IF k > Len(bufs) THEN tmpArray
  ELSE JoinLoop(bufs, k + 1,
                TypedArraySet(tmpArray, bufs[k], currPos),
                NextPos(currPos, bufs[k]))

joinArrayBuffers(bufs) ==
  JoinLoop(bufs, 1, NewUint8Array(SumByteLength(bufs, 1, 0)), 0)

\* the caller collects the buffers to join, in order
AddBuffer(b) ==
  /\ joined = None
  /\ Len(buffers) < MaxBufs
  /\ buffers' = Append(buffers, b)
  /\ UNCHANGED joined
  /\ UNCHANGED chunkVars
  /\ UNCHANGED transferVars

\* a call of joinArrayBuffers on the buffer list the caller holds
JoinCall ==
  /\ joined = None
  /\ joined' = Some(joinArrayBuffers(buffers))
  /\ UNCHANGED buffers
  /\ UNCHANGED chunkVars
  /\ UNCHANGED transferVars

\* ---- transport and Reassembler (specification sections 2 and 4.2) --------
\* the sender hands every fragment of the returned sequence to the transport
Send ==
  /\ pc = "returned"
  /\ channel' = {result[i] : i \in 1..Len(result)}
  /\ delivered' = None
  /\ outOfOrder' = FALSE
  /\ pc' = "sending"
  /\ UNCHANGED <<chunkedMTU, chunkedCount, blob, start, index, total, chunks,
                 result, calls, pending>>
  /\ UNCHANGED joinVars

\* the stored fragments in ascending index order
InIndexOrder(received) ==
  [i \in 1..Cardinality(DOMAIN received) |-> received[i - 1]]

\* insert(fragment): the transport delivers the fragments in any order
Insert(f) ==
  /\ pc = "sending"
  /\ f \in channel
  /\ channel' = channel \ {f}
  /\ outOfOrder' = (outOfOrder \/ \E g \in channel : g.chunkIndex < f.chunkIndex)
  /\ LET id == f.parentMsgId
         entry == IF id \in DOMAIN pending
                  THEN pending[id]
                  ELSE [expectedTotal |-> f.totalChunks, received |-> <<>>]
         wellFormed == /\ f.totalChunks = entry.expectedTotal
                       /\ IsNum(entry.expectedTotal)
                       /\ f.chunkIndex >= 0
                       /\ f.chunkIndex < entry.expectedTotal.n
         stored == [i \in DOMAIN entry.received \cup {f.chunkIndex} |->
                      IF i = f.chunkIndex THEN f.chunkData ELSE entry.received[i]]
         complete == Cardinality(DOMAIN stored) = entry.expectedTotal.n
     IN  IF ~wellFormed
         THEN /\ pending' = pending
              /\ delivered' = None
         ELSE IF complete
         THEN /\ pending' = [k \in DOMAIN pending \ {id} |-> pending[k]]
              /\ delivered' = Some(joinArrayBuffers(InIndexOrder(stored)))
         ELSE /\ pending' = [k \in DOMAIN pending \cup {id} |->
                               IF k = id
                               THEN [expectedTotal |-> entry.expectedTotal,
                                     received |-> stored]
                               ELSE pending[k]]
              /\ delivered' = None
  /\ UNCHANGED chunkVars
  /\ UNCHANGED joinVars

\* every fragment has been delivered: the sender drops the payload and the
\* fragment list, the receiver has consumed the value insert returned
Drained ==
  /\ pc = "sending"
  /\ channel = {}
  /\ pc' = "idle"
  /\ blob' = <<>>
  /\ result' = <<>>
  /\ delivered' = None
  /\ outOfOrder' = FALSE
  /\ UNCHANGED <<chunkedMTU, chunkedCount, start, index, total, chunks, calls>>
  /\ UNCHANGED <<channel, pending>>
  /\ UNCHANGED joinVars

\* ---- specifications ------------------------------------------------------
Next ==
  \/ \E s \in MTUs : Configure(s)
  \/ \E b \in Payloads : ChunkCall(b)
  \/ ChunkIter
  \/ ChunkReturn
  \/ Send
  \/ \E f \in channel : Insert(f)
  \/ Drained

Spec == Init /\ [][Next]_vars

\* the loop body and the loop exit are ordinary straight-line code: once
\* enabled they run
FairSpec == Spec /\ WF_vars(ChunkIter) /\ WF_vars(ChunkReturn)

\* joinArrayBuffers as a pure function of any list of buffers
NextJoin ==
  \/ \E b \in Buffers : AddBuffer(b)
  \/ JoinCall

SpecJoin == Init /\ [][NextJoin]_vars

\* ---- properties ----------------------------------------------------------
\* the fragment size in force is a positive integer
PositiveMTU == IsNum(chunkedMTU) /\ chunkedMTU.n > 0

\* chunk(blob) has returned `result`; chunkedMTU is still the size it used
Returned == pc \in {"returned", "sending"}

\* ceil(len / s) for s > 0, stated without division
Ceil(len, s) ==
  CHOOSE n \in 0..len : n * s >= len /\ (n = 0 \/ (n - 1) * s < len)

RECURSIVE Flatten(_)
Flatten(bufs) ==
  IF bufs = <<>> THEN <<>> ELSE Head(bufs) \o Flatten(Tail(bufs))

RECURSIVE TotalLength(_)
TotalLength(bufs) ==
  IF bufs = <<>> THEN 0 ELSE Len(Head(bufs)) + TotalLength(Tail(bufs))

\* the data of the fragments, ordered by their chunkIndex
DataInIndexOrder(frags) ==
  [i \in 1..Len(frags) |->
     IF \E k \in 1..Len(frags) : frags[k].chunkIndex = i - 1
     THEN frags[CHOOSE k \in 1..Len(frags) : frags[k].chunkIndex = i - 1].chunkData
     ELSE <<>>]

\* C1: for a fragment size s > 0, joining the data of the returned fragments
\* in ascending index order gives back exactly the payload.
C1_RoundTrip ==
  (Returned /\ PositiveMTU) =>
     joinArrayBuffers(DataInIndexOrder(result)) = blob

C1_Witness ==
  /\ Returned /\ PositiveMTU
  /\ Len(result) = 3
  /\ Len(blob) = 5
  /\ blob[1] # blob[2]
  /\ joinArrayBuffers(DataInIndexOrder(result)) = blob

\* C2: for a fragment size s > 0, chunk returns ceil(len(P)/s) fragments for
\* a non-empty payload and no fragment for an empty payload.
C2_FragmentCount ==
  (Returned /\ PositiveMTU) =>
     Len(result) = (IF Len(blob) = 0 THEN 0 ELSE Ceil(Len(blob), chunkedMTU.n))

C2_Witness ==
  /\ Returned /\ PositiveMTU
  /\ Len(blob) = 5 /\ chunkedMTU.n = 3
  /\ Len(result) = 2

\* C3: for a fragment size s > 0, every fragment has at most s bytes, every
\* fragment but the one of index totalChunks - 1 has exactly s bytes, and the
\* last one holds the remainder.
C3_FragmentSizes ==
  (Returned /\ PositiveMTU) =>
     \A i \in 1..Len(result) :
        LET f == result[i]
            s == chunkedMTU.n
        IN  /\ Len(f.chunkData) <= s
            /\ IsNum(f.totalChunks)
            /\ f.chunkIndex # f.totalChunks.n - 1 => Len(f.chunkData) = s
            /\ f.chunkIndex = f.totalChunks.n - 1 =>
                  Len(f.chunkData) = Len(blob) - (f.totalChunks.n - 1) * s

C3_Witness ==
  /\ Returned /\ PositiveMTU
  /\ chunkedMTU.n = 2
  /\ Len(result) = 3
  /\ Len(result[1].chunkData) = 2
  /\ Len(result[2].chunkData) = 2
  /\ Len(result[3].chunkData) = 1

\* C4: in the sequence returned by a chunk call the fragment at position i
\* carries index i, and every fragment carries totalChunks = the number of
\* fragments returned.
C4_IndexAndTotal ==
  Returned =>
     \A i \in 1..Len(result) :
        /\ result[i].chunkIndex = i - 1
        /\ result[i].totalChunks = Num(Len(result))

\* C5: every chunk call increments the message-id counter by exactly 1.
C5_CounterIncrement ==
  [][(pc = "loop" /\ pc' = "returned") =>
        /\ IsNum(chunkedCount)
        /\ IsNum(chunkedCount')
        /\ chunkedCount'.n = chunkedCount.n + 1]_vars

\* C6: on a freshly constructed sender all fragments returned by the k-th
\* call (counting from 0) carry parentMsgId = k.
C6_MessageIds ==
  Returned =>
     \A i \in 1..Len(result) : result[i].parentMsgId = Num(calls - 1)

\* C7: joinArrayBuffers returns the concatenation of its inputs in the given
\* order, of length the sum of the input lengths.
C7_Join ==
  joined.some =>
     /\ joined.bytes = Flatten(buffers)
     /\ Len(joined.bytes) = TotalLength(buffers)

C7_Witness ==
  /\ Len(buffers) = 3
  /\ Len(buffers[1]) = 2
  /\ Len(buffers[2]) = 0
  /\ Len(buffers[3]) = 1
  /\ buffers[1][1] # buffers[1][2]
  /\ buffers[3][1] # 0
  /\ joined = Some(buffers[1] \o buffers[3])

\* C8: with a fragment size <= 0 a chunk call fails: it produces no fragment
\* and does not return normally.
C8_NonPositiveSizeFails ==
  (pc # "idle" /\ IsNum(chunkedMTU) /\ chunkedMTU.n <= 0) =>
     (chunks = <<>> /\ ~Returned)

\* C9: for a fragment size s > 0 and any arrival order of the fragments of
\* one message, each delivered once, insert returns nothing until the last
\* missing fragment arrives and then returns exactly the payload.
C9_Reassembly ==
  (pc = "sending" /\ PositiveMTU /\ Len(result) > 0) =>
     IF channel # {} THEN delivered = None ELSE delivered = Some(blob)

C9_Witness ==
  /\ pc = "sending" /\ PositiveMTU
  /\ Len(result) = 3
  /\ blob[1] # blob[3]
  /\ channel = {}
  /\ outOfOrder
  /\ pending = NoPending
  /\ delivered = Some(blob)

\* C10: for a fragment size s > 0 the start offset strictly increases on
\* every iteration, never passes the payload size, and the call returns.
C10_Terminates ==
  /\ [][(pc = "loop" /\ pc' = "loop" /\ PositiveMTU) =>
          (IsNum(start) /\ IsNum(start') /\ start'.n > start.n)]_vars
  /\ [](pc = "loop" /\ PositiveMTU => IsNum(start) /\ start.n <= size)
  /\ ((pc = "loop" /\ PositiveMTU) ~> (pc = "returned"))

C10_Witness ==
  /\ pc = "loop" /\ PositiveMTU
  /\ Len(chunks) = 2
  /\ JsLt(start, Num(size))
====
